---- MODULE Spec2Model ----
(***************************************************************************)
(* Model of the SWIFT task queue (src/queue.c): a binary max-heap of task  *)
(* indices protected by the queue lock, fed by a lock-free incoming ring   *)
(* buffer.  Threads interleave at the granularity of the atomic            *)
(* operations and lock operations of the C code; code that touches only    *)
(* lock-protected or thread-local data between two such operations is one  *)
(* step.                                                                   *)
(***************************************************************************)
EXTENDS Integers, Sequences, FiniteSets, Bags, TLC

----------------------------------------------------------------------------
(* Bounds of the model. *)

\* Number of worker threads calling queue_insert and queue_gettask.
NThreads == 2
\* Number of threads calling queue_insert when no thread consumes.
NProducers == 3
\* Number of task handles in the external task array.
NTasks == 3

(* Tunables of queue.h, scaled down. *)
queue_sizeinit == 1
queue_sizegrow == 2
queue_incoming_size == 2
queue_search_window == 2

\* Largest heap built when the heap routines are run on their own.
MaxHeap == 5

Threads == 1..NThreads
Producers == 1..NProducers
Procs == Threads \cup Producers
Tasks == 0..(NTasks - 1)

\* The empty marker of an incoming slot, and "no task" (NULL, tid = -1).
Empty == -1
NoTask == -1
\* Content of heap-array cells that were malloc'ed and never written.
Uninit == -2
\* Owner of a task lock taken by a worker outside this queue.
Env == -1
Free == 0

\* Weight assignments of the task array (task.weight), one chosen per run.
WeightTables ==
  { <<5, 1, 9, 3, 5, 7>>,
    <<7, 7, 2, 7, 2, 7>> }

\* Every task handle that has a weight in the table.
HeapTasks == 0..5

VARIABLES
  weights,          \* tasks[i].weight, indexed from 1 (task i is weights[i+1])
  taskLock,         \* owner of each task's lock: Free, a thread, or Env
  tid,              \* q->tid: the heap array, cells 0..size-1
  count,            \* q->count
  size,             \* q->size
  lock,             \* q->lock: Free or the thread holding it
  tid_incoming,     \* q->tid_incoming: cells 0..queue_incoming_size-1
  first_incoming,   \* q->first_incoming
  last_incoming,    \* q->last_incoming
  count_incoming,   \* q->count_incoming
  pc,               \* position of each thread
  arg,              \* queue_insert: the task being inserted (t - q->tasks)
  slot,             \* queue_insert: ind
  offset,           \* queue_get_incoming: offset
  blocking,         \* queue_gettask: blocking
  prev,             \* queue_gettask: prev
  window,           \* queue_gettask: window[0..window_count-1]
  k,                \* queue_gettask: k of the scan loop
  sel,              \* queue_gettask: [tid, ind] of the claimed task
  res,              \* queue_gettask: the value returned, held until released
  ret,              \* history: how the last queue_gettask call returned
  tried,            \* history: tasks whose task_lock failed in the current call
  nins,             \* history: completed queue_insert calls per task
  nret,             \* history: times each task was returned by queue_gettask
  seen,             \* history: tasks whose queue_insert had returned when the
                    \* queue_gettask call in its drain took the queue lock
  casSeq,           \* history: the tasks stored by a CAS and not yet appended
                    \* to the heap, in the order their CAS succeeded
  ncas              \* history: number of CASes of queue_insert that succeeded

qvars == <<tid, count, size, lock, tid_incoming, first_incoming, last_incoming,
           count_incoming>>
lvars == <<arg, slot, offset, blocking, prev, window, k, sel, res>>
hvars == <<ret, tried, nins, nret, seen, casSeq, ncas>>
vars == <<weights, taskLock, qvars, pc, lvars, hvars>>

----------------------------------------------------------------------------
(* The external task handle. *)

\* task.weight
Weight(t) == weights[t + 1]

\* task_overlap(prev, t): 0 without a previous task, otherwise a fixed score.
task_overlap(p, t) == IF p = NoTask \/ t = NoTask THEN 0 ELSE (p + 2 * t) % 3

----------------------------------------------------------------------------
(* Heap maintenance. *)

\* The swap without the temporary: cell j keeps its old content.
SwapNoTemp(f, i, j) == [f EXCEPT ![i] = f[j]]

\* "int temp = tid[i]; tid[i] = tid[j]; tid[j] = temp".
Swap(f, i, j) == [f EXCEPT ![i] = f[j], ![j] = f[i]]

\* The loop of queue_bubble_up stopping at a parent of equal weight
\* ("w <= weight" for "w < weight").
RECURSIVE BubbleLoopStrict(_, _, _)
BubbleLoopStrict(qtid, ind, w) ==
  IF ind > 0
    THEN LET parent == (ind - 1) \div 2 IN
         IF w <= Weight(qtid[parent])
           THEN [tid |-> qtid, ind |-> ind]
           ELSE BubbleLoopStrict(Swap(qtid, ind, parent), parent, w)
    ELSE [tid |-> qtid, ind |-> ind]

RECURSIVE BubbleLoop(_, _, _)
BubbleLoop(qtid, ind, w) ==
  IF ind > 0
    THEN LET parent == (ind - 1) \div 2 IN
         IF w < Weight(qtid[parent])
           THEN [tid |-> qtid, ind |-> ind]
           ELSE BubbleLoop(Swap(qtid, ind, parent), parent, w)
    ELSE [tid |-> qtid, ind |-> ind]

\* queue_bubble_up without the swaps: the entry stays where it is.
BubbleUpNoSwap(qtid, ind) == [tid |-> qtid, ind |-> ind]

\* queue_bubble_up(q, ind): the heap array and the index after the loop.
queue_bubble_up(qtid, ind) == BubbleLoop(qtid, ind, Weight(qtid[ind]))

\* The loop of queue_sift_down taking the right child on equal weights
\* (">=" for ">" in the comparison of the children).
RECURSIVE SiftLoopRightTie(_, _, _, _)
SiftLoopRightTie(qtid, qcount, ind, w) ==
  LET child == 2 * ind + 1 IN
  IF child >= qcount
    THEN [tid |-> qtid, ind |-> ind]
    ELSE LET c == IF child + 1 < qcount
                     /\ Weight(qtid[child + 1]) >= Weight(qtid[child])
                    THEN child + 1 ELSE child
         IN IF Weight(qtid[c]) > w
              THEN SiftLoopRightTie(Swap(qtid, c, ind), qcount, c, w)
              ELSE [tid |-> qtid, ind |-> ind]

RECURSIVE SiftLoop(_, _, _, _)
SiftLoop(qtid, qcount, ind, w) ==
  LET child == 2 * ind + 1 IN
  IF child >= qcount
    THEN [tid |-> qtid, ind |-> ind]
    ELSE LET c == IF child + 1 < qcount
                     /\ Weight(qtid[child + 1]) > Weight(qtid[child])
                    THEN child + 1 ELSE child
         IN IF Weight(qtid[c]) > w
              THEN SiftLoop(Swap(qtid, c, ind), qcount, c, w)
              ELSE [tid |-> qtid, ind |-> ind]

\* queue_sift_down(q, ind) with q->count = qcount.
queue_sift_down(qtid, qcount, ind) ==
  SiftLoop(qtid, qcount, ind, Weight(qtid[ind]))

----------------------------------------------------------------------------
(* queue_init *)

Init ==
  /\ weights \in WeightTables
  /\ taskLock = [t \in Tasks |-> Free]
  /\ size = queue_sizeinit
  /\ tid = [i \in 0..(queue_sizeinit - 1) |-> Uninit]
  /\ count = 0
  /\ lock = Free
  /\ tid_incoming = [i \in 0..(queue_incoming_size - 1) |-> Empty]
  /\ first_incoming = 0
  /\ last_incoming = 0
  /\ count_incoming = 0
  /\ pc = [t \in Procs |-> "idle"]
  /\ arg = [t \in Procs |-> NoTask]
  /\ slot = [t \in Procs |-> 0]
  /\ offset = [t \in Procs |-> NoTask]
  /\ blocking = [t \in Procs |-> 0]
  /\ prev = [t \in Procs |-> NoTask]
  /\ window = [t \in Procs |-> <<>>]
  /\ k = [t \in Procs |-> 0]
  /\ sel = [t \in Procs |-> [tid |-> -1, ind |-> -1]]
  /\ res = [t \in Procs |-> NoTask]
  /\ ret = [t \in Procs |-> "none"]
  /\ tried = [t \in Procs |-> <<>>]
  /\ nins = [t \in Tasks |-> 0]
  /\ nret = [t \in Tasks |-> 0]
  /\ seen = [t \in Procs |-> {}]
  /\ casSeq = <<>>
  /\ ncas = 0

----------------------------------------------------------------------------
(* queue_insert *)

\* Entry and "const int ind = atomic_inc(&q->last_incoming) % size".
\* The engine enqueues a task once, when it becomes ready.
InsertCall(th, t) ==
  /\ pc[th] = "idle"
  /\ nins[t] = 0
  /\ \A o \in Procs : arg[o] # t
  /\ arg' = [arg EXCEPT ![th] = t]
  /\ slot' = [slot EXCEPT ![th] = last_incoming % queue_incoming_size]
  /\ last_incoming' = last_incoming + 1
  /\ pc' = [pc EXCEPT ![th] = "qi_cas"]
  /\ UNCHANGED <<weights, taskLock, tid, count, size, lock, tid_incoming,
                 first_incoming, count_incoming, offset, blocking, prev,
                 window, k, sel, res, hvars>>

\* atomic_cas storing whatever the slot holds.
CasAlways(cur) == TRUE

\* atomic_cas(&slot, -1, v) == -1: the swap happens on an empty slot only.
CasSucceeds(cur) == cur = Empty

\* "while (atomic_cas(&q->tid_incoming[ind], -1, t - q->tasks) != -1)"
InsertCas(th) ==
  /\ pc[th] = "qi_cas"
  /\ IF CasSucceeds(tid_incoming[slot[th]])
       THEN /\ tid_incoming' = [tid_incoming EXCEPT ![slot[th]] = arg[th]]
            /\ casSeq' = Append(casSeq, arg[th])
            /\ ncas' = ncas + 1
            /\ pc' = [pc EXCEPT ![th] = "qi_count"]
       ELSE /\ tid_incoming' = tid_incoming
            /\ UNCHANGED <<casSeq, ncas>>
            /\ pc' = [pc EXCEPT ![th] = "qi_trylock"]
  /\ UNCHANGED <<weights, taskLock, tid, count, size, lock, first_incoming,
                 last_incoming, count_incoming, lvars, ret, tried, nins, nret,
                 seen>>

\* queue_insert waiting on the queue lock (lock_lock for lock_trylock).
InsertLockWait(th) ==
  /\ pc[th] = "qi_trylock"
  /\ lock = Free
  /\ lock' = th
  /\ pc' = [pc EXCEPT ![th] = "gi_check"]
  /\ UNCHANGED <<weights, taskLock, tid, count, size, tid_incoming,
                 first_incoming, last_incoming, count_incoming, lvars, hvars>>

\* queue_insert entering the drain without the queue lock.
InsertNoLock(th) ==
  /\ pc[th] = "qi_trylock"
  /\ pc' = [pc EXCEPT ![th] = "gi_check"]
  /\ UNCHANGED <<weights, taskLock, tid, count, size, lock, tid_incoming,
                 first_incoming, last_incoming, count_incoming, lvars, hvars>>

\* lock_trylock(&q->lock) == 0 inside the spin loop.
InsertTryLock(th) ==
  /\ pc[th] = "qi_trylock"
  /\ IF lock = Free
       THEN /\ lock' = th
            /\ pc' = [pc EXCEPT ![th] = "gi_check"]
       ELSE /\ lock' = lock
            /\ pc' = [pc EXCEPT ![th] = "qi_cas"]
  /\ UNCHANGED <<weights, taskLock, tid, count, size, tid_incoming,
                 first_incoming, last_incoming, count_incoming, lvars, hvars>>

\* lock_unlock(&q->lock) after the drain, then back to the CAS.
InsertUnlock(th) ==
  /\ pc[th] = "qi_unlock"
  /\ lock' = Free
  /\ pc' = [pc EXCEPT ![th] = "qi_cas"]
  /\ UNCHANGED <<weights, taskLock, tid, count, size, tid_incoming,
                 first_incoming, last_incoming, count_incoming, lvars, hvars>>

\* queue_insert returning without the atomic_inc of count_incoming.
InsertCountNoInc(th) ==
  /\ pc[th] = "qi_count"
  /\ count_incoming' = count_incoming
  /\ nins' = [nins EXCEPT ![arg[th]] = @ + 1]
  /\ arg' = [arg EXCEPT ![th] = NoTask]
  /\ slot' = [slot EXCEPT ![th] = 0]
  /\ pc' = [pc EXCEPT ![th] = "idle"]
  /\ UNCHANGED <<weights, taskLock, tid, count, size, lock, tid_incoming,
                 first_incoming, last_incoming, offset, blocking, prev,
                 window, k, sel, res, ret, tried, nret, seen, casSeq,
                 ncas>>

\* atomic_inc(&q->count_incoming) and return.
InsertCount(th) ==
  /\ pc[th] = "qi_count"
  /\ count_incoming' = count_incoming + 1
  /\ nins' = [nins EXCEPT ![arg[th]] = @ + 1]
  /\ arg' = [arg EXCEPT ![th] = NoTask]
  /\ slot' = [slot EXCEPT ![th] = 0]
  /\ pc' = [pc EXCEPT ![th] = "idle"]
  /\ UNCHANGED <<weights, taskLock, tid, count, size, lock, tid_incoming,
                 first_incoming, last_incoming, offset, blocking, prev,
                 window, k, sel, res, ret, tried, nret, seen, casSeq,
                 ncas>>

----------------------------------------------------------------------------
(* queue_get_incoming, run by the thread that holds the queue lock. *)

\* Where the drain returns to: queue_insert's unlock or queue_gettask.
AfterDrain(th) == IF arg[th] # NoTask THEN "qi_unlock" ELSE "gt_empty"

\* The test for a next element finding none, whatever the slot holds.
NoNextEver(cur) == TRUE

\* "if (q->tid_incoming[ind] < 0) break": there is no next element.
NoNext(cur) == cur < 0

\* The drain step without atomic_inc(&q->first_incoming).
IncomingCheckNoAdvance(th) ==
  /\ pc[th] = "gi_check"
  /\ LET ind == first_incoming % queue_incoming_size IN
     IF NoNext(tid_incoming[ind])
       THEN /\ pc' = [pc EXCEPT ![th] = AfterDrain(th)]
            /\ UNCHANGED <<tid_incoming, offset>>
       ELSE /\ offset' = [offset EXCEPT ![th] = tid_incoming[ind]]
            /\ tid_incoming' = [tid_incoming EXCEPT ![ind] = Empty]
            /\ pc' = [pc EXCEPT ![th] =
                        IF count = size THEN "gi_grow" ELSE "gi_put"]
  /\ UNCHANGED <<weights, taskLock, tid, count, size, lock, first_incoming,
                 last_incoming, count_incoming, arg, slot, blocking, prev,
                 window, k, sel, res, hvars>>

\* "if (q->tid_incoming[ind] < 0) break", else atomic_swap and
\* atomic_inc(&q->first_incoming).
IncomingCheck(th) ==
  /\ pc[th] = "gi_check"
  /\ LET ind == first_incoming % queue_incoming_size IN
     IF NoNext(tid_incoming[ind])
       THEN /\ pc' = [pc EXCEPT ![th] = AfterDrain(th)]
            /\ UNCHANGED <<tid_incoming, first_incoming, offset>>
       ELSE /\ offset' = [offset EXCEPT ![th] = tid_incoming[ind]]
            /\ tid_incoming' = [tid_incoming EXCEPT ![ind] = Empty]
            /\ first_incoming' = first_incoming + 1
            /\ pc' = [pc EXCEPT ![th] =
                        IF count = size THEN "gi_grow" ELSE "gi_put"]
  /\ UNCHANGED <<weights, taskLock, tid, count, size, lock, last_incoming,
                 count_incoming, arg, slot, blocking, prev, window, k, sel,
                 res, hvars>>

\* A growth step whose copy reverses the old contents.
GrownArrayReversed(qtid, qcount, newsize) ==
  [i \in 0..(newsize - 1) |-> IF i < qcount THEN qtid[qcount - 1 - i]
                                             ELSE Uninit]

\* The new array of a growth step: malloc of newsize cells, memcpy of the
\* first qcount cells.
GrownArray(qtid, qcount, newsize) ==
  [i \in 0..(newsize - 1) |-> IF i < qcount THEN qtid[i] ELSE Uninit]

\* A growth step adding queue_sizegrow cells in place of multiplying.
IncomingGrowAdd(th) ==
  /\ pc[th] = "gi_grow"
  /\ size' = size + queue_sizegrow
  /\ tid' = GrownArray(tid, count, size + queue_sizegrow)
  /\ pc' = [pc EXCEPT ![th] = "gi_put"]
  /\ UNCHANGED <<weights, taskLock, count, lock, tid_incoming, first_incoming,
                 last_incoming, count_incoming, lvars, hvars>>

\* "if (q->count == q->size)": grow the heap array.
IncomingGrow(th) ==
  /\ pc[th] = "gi_grow"
  /\ size' = size * queue_sizegrow
  /\ tid' = GrownArray(tid, count, size * queue_sizegrow)
  /\ pc' = [pc EXCEPT ![th] = "gi_put"]
  /\ UNCHANGED <<weights, taskLock, count, lock, tid_incoming, first_incoming,
                 last_incoming, count_incoming, lvars, hvars>>

\* tid[q->count] = offset; q->count += 1; atomic_dec(&q->count_incoming);
\* queue_bubble_up(q, q->count - 1).
IncomingPut(th) ==
  /\ pc[th] = "gi_put"
  /\ tid' = queue_bubble_up([tid EXCEPT ![count] = offset[th]], count).tid
  /\ count' = count + 1
  /\ count_incoming' = count_incoming - 1
  /\ offset' = [offset EXCEPT ![th] = NoTask]
  /\ casSeq' = SelectSeq(casSeq, LAMBDA t : t # offset[th])
  /\ pc' = [pc EXCEPT ![th] = "gi_check"]
  /\ UNCHANGED <<weights, taskLock, size, lock, tid_incoming, first_incoming,
                 last_incoming, arg, slot, blocking, prev, window, k, sel,
                 res, ret, tried, nins, nret, seen, ncas>>

----------------------------------------------------------------------------
(* queue_gettask *)

\* A window entry whose score is left at 0.
WindowEntryNoScore(qtid, p, i) == [ind |-> i, tid |-> qtid[i], score |-> 0]

\* One window entry for heap index i: {ind, tid, score}.
WindowEntry(qtid, p, i) ==
  [ind |-> i, tid |-> qtid[i], score |-> task_overlap(p, qtid[i])]

RECURSIVE IndMaxLoop(_, _, _)
IndMaxLoop(win, i, ind_max) ==
  IF i > Len(win)
    THEN ind_max
    ELSE IndMaxLoop(win, i + 1,
                    IF win[i].score > win[ind_max].score THEN i ELSE ind_max)

\* The scan for ind_max taking the last best-scoring member (>= for >).
IndMaxLast(win) ==
  CHOOSE i \in 1..Len(win) :
    /\ \A j \in 1..Len(win) : win[j].score <= win[i].score
    /\ \A j \in (i + 1)..Len(win) : win[j].score < win[i].score

\* "int ind_max = 0; for (i = 1; i < window_count; i++) if (window[i].score >
\* window[ind_max].score) ind_max = i"; window[i] of the code is win[i+1].
IndMax(win) == IndMaxLoop(win, 2, 1)

\* task_lock(&qtasks[t]): the non-blocking try-lock succeeds on a free task.
task_lock(t) == taskLock[t] = Free

\* Entry of queue_gettask(q, prev, blocking); a worker asks for its next task
\* after it has released the one it ran.  prev is NULL or a task that was
\* extracted from this queue before.
GetTaskCall(th, p, b) ==
  /\ pc[th] = "idle"
  /\ res[th] = NoTask
  /\ IF p = NoTask THEN TRUE ELSE nret[p] > 0
  /\ prev' = [prev EXCEPT ![th] = p]
  /\ blocking' = [blocking EXCEPT ![th] = b]
  /\ ret' = [ret EXCEPT ![th] = "none"]
  /\ pc' = [pc EXCEPT ![th] = "gt_lock"]
  /\ UNCHANGED <<weights, taskLock, qvars, arg, slot, offset, window, k,
                 sel, res, tried, nins, nret, seen, casSeq,
                 ncas>>

\* queue_gettask going on into the drain when its trylock has failed.
GetTaskLockIgnored(th) ==
  /\ pc[th] = "gt_lock"
  /\ lock = Free \/ blocking[th] = 0
  /\ lock' = th
  /\ pc' = [pc EXCEPT ![th] = "gi_check"]
  /\ UNCHANGED <<weights, taskLock, tid, count, size, tid_incoming,
                 first_incoming, last_incoming, count_incoming, lvars, hvars>>

\* queue_gettask waiting for the queue lock whatever blocking says.
GetTaskLockWait(th) ==
  /\ pc[th] = "gt_lock"
  /\ lock = Free
  /\ lock' = th
  /\ pc' = [pc EXCEPT ![th] = "gi_check"]
  /\ UNCHANGED <<weights, taskLock, tid, count, size, tid_incoming,
                 first_incoming, last_incoming, count_incoming, lvars, hvars>>

\* "if (blocking) lock_lock(qlock) else if (lock_trylock(qlock) != 0) return
\* NULL".
GetTaskLock(th) ==
  /\ pc[th] = "gt_lock"
  /\ IF lock = Free
       THEN /\ lock' = th
            /\ pc' = [pc EXCEPT ![th] = "gi_check"]
            /\ seen' = [seen EXCEPT ![th] = {t \in Tasks : nins[t] > 0}]
            /\ UNCHANGED <<ret, prev>>
       ELSE /\ blocking[th] = 0
            /\ lock' = lock
            /\ pc' = [pc EXCEPT ![th] = "idle"]
            /\ ret' = [ret EXCEPT ![th] = "busy"]
            /\ prev' = [prev EXCEPT ![th] = NoTask]
            /\ seen' = seen
  /\ UNCHANGED <<weights, taskLock, tid, count, size, tid_incoming,
                 first_incoming, last_incoming, count_incoming, arg, slot,
                 offset, blocking, window, k, sel, res, tried, nins, nret,
                 casSeq, ncas>>

\* queue_gettask filling the window with every heap entry ("k <
\* queue_search_window" always true).
GetTaskEmptyFillAll(th) ==
  /\ pc[th] = "gt_empty"
  /\ IF count = 0
       THEN /\ lock' = Free
            /\ pc' = [pc EXCEPT ![th] = "idle"]
            /\ ret' = [ret EXCEPT ![th] = "empty"]
            /\ prev' = [prev EXCEPT ![th] = NoTask]
            /\ blocking' = [blocking EXCEPT ![th] = 0]
            /\ UNCHANGED <<window, k>>
       ELSE /\ window' = [window EXCEPT ![th] =
                 [i \in 1..count |-> WindowEntry(tid, prev[th], i - 1)]]
            /\ k' = [k EXCEPT ![th] = count]
            /\ pc' = [pc EXCEPT ![th] = "gt_rest"]
            /\ UNCHANGED <<lock, ret, prev, blocking>>
  /\ seen' = [seen EXCEPT ![th] = {}]
  /\ UNCHANGED <<weights, taskLock, tid, count, size, tid_incoming,
                 first_incoming, last_incoming, count_incoming, arg, slot,
                 offset, sel, res, tried, nins, nret, casSeq,
                 ncas>>

\* queue_gettask returning NULL on an empty heap without lock_unlock_blind.
GetTaskEmptyNoUnlock(th) ==
  /\ pc[th] = "gt_empty"
  /\ IF count = 0
       THEN /\ lock' = lock
            /\ pc' = [pc EXCEPT ![th] = "idle"]
            /\ ret' = [ret EXCEPT ![th] = "empty"]
            /\ prev' = [prev EXCEPT ![th] = NoTask]
            /\ blocking' = [blocking EXCEPT ![th] = 0]
            /\ UNCHANGED <<window, k>>
       ELSE LET n == IF count < queue_search_window
                       THEN count ELSE queue_search_window
            IN /\ window' = [window EXCEPT ![th] =
                    [i \in 1..n |-> WindowEntry(tid, prev[th], i - 1)]]
               /\ k' = [k EXCEPT ![th] = n]
               /\ pc' = [pc EXCEPT ![th] =
                          IF n < count THEN "gt_scan" ELSE "gt_rest"]
               /\ UNCHANGED <<lock, ret, prev, blocking>>
  /\ seen' = [seen EXCEPT ![th] = {}]
  /\ UNCHANGED <<weights, taskLock, tid, count, size, tid_incoming,
                 first_incoming, last_incoming, count_incoming, arg, slot,
                 offset, sel, res, tried, nins, nret, casSeq, ncas>>

\* "if (q->count == 0) { lock_unlock_blind(qlock); return NULL; }", else the
\* first min(count, queue_search_window) iterations of the scan loop, which
\* only fill the window.
GetTaskEmpty(th) ==
  /\ pc[th] = "gt_empty"
  /\ IF count = 0
       THEN /\ lock' = Free
            /\ pc' = [pc EXCEPT ![th] = "idle"]
            /\ ret' = [ret EXCEPT ![th] = "empty"]
            /\ prev' = [prev EXCEPT ![th] = NoTask]
            /\ blocking' = [blocking EXCEPT ![th] = 0]
            /\ UNCHANGED <<window, k>>
       ELSE LET n == IF count < queue_search_window
                       THEN count ELSE queue_search_window
            IN /\ window' = [window EXCEPT ![th] =
                    [i \in 1..n |-> WindowEntry(tid, prev[th], i - 1)]]
               /\ k' = [k EXCEPT ![th] = n]
               /\ pc' = [pc EXCEPT ![th] =
                          IF n < count THEN "gt_scan" ELSE "gt_rest"]
               /\ UNCHANGED <<lock, ret, prev, blocking>>
  /\ seen' = [seen EXCEPT ![th] = {}]
  /\ UNCHANGED <<weights, taskLock, tid, count, size, tid_incoming,
                 first_incoming, last_incoming, count_incoming, arg, slot,
                 offset, sel, res, tried, nins, nret, casSeq,
                 ncas>>

\* One iteration of the scan loop with k >= queue_search_window: try to lock
\* the best window member, else replace it by heap entry k.
GetTaskScan(th) ==
  /\ pc[th] = "gt_scan"
  /\ LET im == IndMax(window[th])
         w == window[th][im]
     IN IF task_lock(w.tid)
          THEN /\ taskLock' = [taskLock EXCEPT ![w.tid] = th]
               /\ sel' = [sel EXCEPT ![th] = [tid |-> w.tid, ind |-> w.ind]]
               /\ pc' = [pc EXCEPT ![th] = "gt_remove"]
               /\ UNCHANGED <<window, k, tried>>
          ELSE /\ window' = [window EXCEPT ![th][im] =
                               WindowEntry(tid, prev[th], k[th])]
               /\ k' = [k EXCEPT ![th] = @ + 1]
               /\ tried' = [tried EXCEPT ![th] = Append(@, w.tid)]
               /\ pc' = [pc EXCEPT ![th] =
                          IF k[th] + 1 < count THEN "gt_scan" ELSE "gt_rest"]
               /\ UNCHANGED <<taskLock, sel>>
  /\ UNCHANGED <<weights, qvars, arg, slot, offset, blocking, prev, res, ret,
                 nins, nret, seen, casSeq,
                 ncas>>

\* The window shortened by one with the failed member left in place.
WindowDropLast(win, im) == SubSeq(win, 1, Len(win) - 1)

\* The window without member im: "window_count -= 1; window[ind_max] =
\* window[window_count]".
WindowDrop(win, im) ==
  [i \in 1..(Len(win) - 1) |-> IF i = im THEN win[Len(win)] ELSE win[i]]

\* One iteration of "while (window_count > 0)" after the scan loop.
GetTaskRest(th) ==
  /\ pc[th] = "gt_rest"
  /\ LET im == IndMax(window[th])
         w == window[th][im]
     IN IF task_lock(w.tid)
          THEN /\ taskLock' = [taskLock EXCEPT ![w.tid] = th]
               /\ sel' = [sel EXCEPT ![th] = [tid |-> w.tid, ind |-> w.ind]]
               /\ pc' = [pc EXCEPT ![th] = "gt_remove"]
               /\ UNCHANGED <<window, tried>>
          ELSE /\ window' = [window EXCEPT ![th] = WindowDrop(@, im)]
               /\ tried' = [tried EXCEPT ![th] = Append(@, w.tid)]
               /\ pc' = [pc EXCEPT ![th] =
                          IF Len(window[th]) > 1 THEN "gt_rest"
                                                 ELSE "gt_remove"]
               /\ UNCHANGED <<taskLock, sel>>
  /\ UNCHANGED <<weights, qvars, arg, slot, offset, blocking, prev, k, res,
                 ret, nins, nret, seen, casSeq,
                 ncas>>

\* The removal without the move of the last entry into the vacated cell.
HeapRemoveNoMove(qtid, qcount, ind) == qtid

\* The heap array after the entry at ind is taken out of a heap of qcount + 1
\* entries: "if (ind < qcount) { qtid[ind] = qtid[qcount]; ind =
\* queue_bubble_up(q, ind); ind = queue_sift_down(q, ind); }".
HeapRemove(qtid, qcount, ind) ==
  IF ind < qcount
    THEN LET moved == [qtid EXCEPT ![ind] = qtid[qcount]]
             up == queue_bubble_up(moved, ind)
         IN queue_sift_down(up.tid, qcount, up.ind).tid
    ELSE qtid

\* "if (ind >= 0) { q->count -= 1; res = &qtasks[tid]; ... } else res = NULL;
\* lock_unlock(qlock); return res".
GetTaskRemove(th) ==
  /\ pc[th] = "gt_remove"
  /\ IF sel[th].ind >= 0
       THEN /\ count' = count - 1
            /\ tid' = HeapRemove(tid, count - 1, sel[th].ind)
            /\ res' = [res EXCEPT ![th] = sel[th].tid]
            /\ nret' = [nret EXCEPT ![sel[th].tid] = @ + 1]
            /\ ret' = [ret EXCEPT ![th] = "task"]
       ELSE /\ res' = [res EXCEPT ![th] = NoTask]
            /\ ret' = [ret EXCEPT ![th] = "locked"]
            /\ UNCHANGED <<count, tid, nret>>
  /\ lock' = Free
  /\ window' = [window EXCEPT ![th] = <<>>]
  /\ k' = [k EXCEPT ![th] = 0]
  /\ sel' = [sel EXCEPT ![th] = [tid |-> -1, ind |-> -1]]
  /\ tried' = [tried EXCEPT ![th] = <<>>]
  /\ prev' = [prev EXCEPT ![th] = NoTask]
  /\ blocking' = [blocking EXCEPT ![th] = 0]
  /\ pc' = [pc EXCEPT ![th] = "idle"]
  /\ UNCHANGED <<weights, taskLock, size, tid_incoming, first_incoming,
                 last_incoming, count_incoming, arg, slot, offset, nins, seen,
                 casSeq, ncas>>

----------------------------------------------------------------------------
(* The callers: the worker that runs a returned task, and other workers. *)

\* The worker finishes the task it was given and unlocks it.
TaskDone(th) ==
  /\ pc[th] = "idle"
  /\ res[th] # NoTask
  /\ taskLock' = [taskLock EXCEPT ![res[th]] = Free]
  /\ res' = [res EXCEPT ![th] = NoTask]
  /\ ret' = [ret EXCEPT ![th] = "none"]
  /\ UNCHANGED <<weights, qvars, pc, arg, slot, offset, blocking, prev, window,
                 k, sel, tried, nins, nret, seen, casSeq,
                 ncas>>

\* A worker outside this queue locks a task that has not been dispatched.
EnvLock(t) ==
  /\ taskLock[t] = Free
  /\ nret[t] = 0
  /\ taskLock' = [taskLock EXCEPT ![t] = Env]
  /\ UNCHANGED <<weights, qvars, pc, lvars, hvars>>

EnvUnlock(t) ==
  /\ taskLock[t] = Env
  /\ taskLock' = [taskLock EXCEPT ![t] = Free]
  /\ UNCHANGED <<weights, qvars, pc, lvars, hvars>>

----------------------------------------------------------------------------

InsertStep(th) ==
  \/ InsertCas(th)
  \/ InsertTryLock(th)
  \/ InsertUnlock(th)
  \/ InsertCount(th)

DrainStep(th) ==
  \/ IncomingCheck(th)
  \/ IncomingGrow(th)
  \/ IncomingPut(th)

GetTaskStep(th) ==
  \/ GetTaskLock(th)
  \/ GetTaskEmpty(th)
  \/ GetTaskScan(th)
  \/ GetTaskRest(th)
  \/ GetTaskRemove(th)

Next ==
  \/ \E th \in Threads, t \in Tasks : InsertCall(th, t)
  \/ \E th \in Threads : InsertStep(th)
  \/ \E th \in Threads : DrainStep(th)
  \/ \E th \in Threads, p \in Tasks \cup {NoTask}, b \in {0, 1} :
       GetTaskCall(th, p, b)
  \/ \E th \in Threads : GetTaskStep(th)
  \/ \E th \in Threads : TaskDone(th)
  \/ \E t \in Tasks : EnvLock(t)
  \/ \E t \in Tasks : EnvUnlock(t)

Spec == Init /\ [][Next]_vars

\* Producers only: threads call queue_insert and no thread calls
\* queue_gettask.  Every producer inside a call keeps being scheduled.
ProducerStep(p) == InsertStep(p) \/ DrainStep(p)

NextInsert ==
  \/ \E p \in Producers, t \in Tasks : InsertCall(p, t)
  \/ \E p \in Producers : InsertStep(p)
  \/ \E p \in Producers : DrainStep(p)

SpecInsert ==
  Init /\ [][NextInsert]_vars /\ \A p \in Producers : WF_vars(ProducerStep(p))

\* The steps of a queue_gettask call with blocking = 0.
NonBlockingStep(th) ==
  /\ blocking[th] = 0
  /\ arg[th] = NoTask
  /\ GetTaskStep(th) \/ DrainStep(th)

\* The full system in which only thread 1, while inside a non-blocking
\* queue_gettask call, is sure to be scheduled; every other thread may stop
\* anywhere, also while it holds the queue lock or a task lock.
SpecGet == Init /\ [][Next]_vars /\ WF_vars(NonBlockingStep(1))

\* The steps of th inside a call of queue_insert or queue_gettask.
ThreadStep(th) == InsertStep(th) \/ DrainStep(th) \/ GetTaskStep(th)

\* A worker and a producer on one queue: thread 1 is a worker that calls
\* queue_gettask(q, NULL, 1) and runs the tasks it gets; thread 2 enqueues
\* the tasks, in any order, and polls with queue_gettask(q, NULL, 0); a
\* worker outside the queue may hold task 0.
InitLock == Init /\ weights[1] = 5

NextLock ==
  \/ \E t \in Tasks : InsertCall(2, t)
  \/ InsertStep(2)
  \/ \E th \in Threads : DrainStep(th)
  \/ GetTaskCall(1, NoTask, 1)
  \/ GetTaskCall(2, NoTask, 0)
  \/ \E th \in Threads : GetTaskStep(th)
  \/ \E th \in Threads : TaskDone(th)
  \/ EnvLock(0)
  \/ EnvUnlock(0)

\* Fair scheduling of the threads: a thread that is inside a call and can
\* take a step is not held back for ever.  Whether and when a thread makes
\* a new call is left open.
SpecLock ==
  InitLock /\ [][NextLock]_vars /\ \A th \in Threads : WF_vars(ThreadStep(th))

----------------------------------------------------------------------------
(* The heap routines on their own: one thread holds the queue lock for good  *)
(* and appends and removes entries as queue_get_incoming and queue_gettask   *)
(* do, one routine call per step.  k[1] is the index handed to the routine,  *)
(* sel[1] the entry it moves and the index it returns, ret[1] the routine.   *)

\* "if (q->count == q->size) grow; tid[q->count] = offset; q->count += 1",
\* before queue_bubble_up(q, q->count - 1).
HeapPut(t) ==
  /\ pc[1] = "idle"
  /\ count < MaxHeap
  /\ \A i \in 0..(count - 1) : tid[i] # t
  /\ IF count = size
       THEN /\ size' = size * queue_sizegrow
            /\ tid' = [GrownArray(tid, count, size * queue_sizegrow)
                         EXCEPT ![count] = t]
       ELSE /\ size' = size
            /\ tid' = [tid EXCEPT ![count] = t]
  /\ count' = count + 1
  /\ k' = [k EXCEPT ![1] = count]
  /\ pc' = [pc EXCEPT ![1] = "hp_up_put"]
  /\ UNCHANGED <<weights, taskLock, lock, tid_incoming, first_incoming,
                 last_incoming, count_incoming, arg, slot, offset, blocking,
                 prev, window, sel, res, hvars>>

\* "const int qcount = q->count -= 1; if (ind < qcount) qtid[ind] =
\* qtid[qcount]", before queue_bubble_up(q, ind).
HeapTake(i) ==
  /\ pc[1] = "idle"
  /\ i \in 0..(count - 1)
  /\ count' = count - 1
  /\ IF i < count - 1
       THEN /\ tid' = [tid EXCEPT ![i] = tid[count - 1]]
            /\ k' = [k EXCEPT ![1] = i]
            /\ pc' = [pc EXCEPT ![1] = "hp_up_take"]
       ELSE UNCHANGED <<tid, k, pc>>
  /\ UNCHANGED <<weights, taskLock, size, lock, tid_incoming, first_incoming,
                 last_incoming, count_incoming, arg, slot, offset, blocking,
                 prev, window, sel, res, hvars>>

\* "ind = queue_bubble_up(q, ind)".
HeapBubble ==
  /\ pc[1] \in {"hp_up_put", "hp_up_take"}
  /\ LET up == queue_bubble_up(tid, k[1]) IN
       /\ tid' = up.tid
       /\ sel' = [sel EXCEPT ![1] = [tid |-> tid[k[1]], ind |-> up.ind]]
  /\ ret' = [ret EXCEPT ![1] = "bubble"]
  /\ pc' = [pc EXCEPT ![1] =
              IF pc[1] = "hp_up_take" THEN "hp_down" ELSE "idle"]
  /\ UNCHANGED <<weights, taskLock, count, size, lock, tid_incoming,
                 first_incoming, last_incoming, count_incoming, arg, slot,
                 offset, blocking, prev, window, k, res, tried, nins, nret,
                 seen, casSeq,
                 ncas>>

\* "ind = queue_sift_down(q, ind)" on the index queue_bubble_up returned.
HeapSift ==
  /\ pc[1] = "hp_down"
  /\ LET down == queue_sift_down(tid, count, sel[1].ind) IN
       /\ tid' = down.tid
       /\ sel' = [sel EXCEPT ![1].ind = down.ind]
  /\ k' = [k EXCEPT ![1] = sel[1].ind]
  /\ ret' = [ret EXCEPT ![1] = "sift"]
  /\ pc' = [pc EXCEPT ![1] = "idle"]
  /\ UNCHANGED <<weights, taskLock, count, size, lock, tid_incoming,
                 first_incoming, last_incoming, count_incoming, arg, slot,
                 offset, blocking, prev, window, res, tried, nins, nret,
                 seen, casSeq,
                 ncas>>

NextHeap ==
  \/ \E t \in HeapTasks : HeapPut(t)
  \/ \E i \in 0..(MaxHeap - 1) : HeapTake(i)
  \/ HeapBubble
  \/ HeapSift

SpecHeap == Init /\ [][NextHeap]_vars

----------------------------------------------------------------------------
(* Properties. *)

\* The max-heap order of tid[0..count-1] on weight.
HeapOK ==
  \A i \in 1..(count - 1) : Weight(tid[(i - 1) \div 2]) >= Weight(tid[i])

\* Number of heap entries, and of incoming slots, that hold task t.
HeapOcc(t) == Cardinality({i \in 0..(count - 1) : tid[i] = t})
SlotOcc(t) ==
  Cardinality({i \in 0..(queue_incoming_size - 1) : tid_incoming[i] = t})

RECURSIVE Sum(_, _)
Sum(f, S) == IF S = {} THEN 0
             ELSE LET x == CHOOSE y \in S : TRUE IN f[x] + Sum(f, S \ {x})

Range(f) == {f[i] : i \in DOMAIN f}

\* No call of queue_insert or queue_gettask is in progress.
AllIdle == \A th \in Procs : pc[th] = "idle"

\* Positions of a queue_gettask call that holds the queue lock after its drain.
Selecting == {"gt_empty", "gt_scan", "gt_rest", "gt_remove"}

\* C1: whenever no thread holds the queue lock, the heap array is a max-heap
\* on weight: every entry k in [1, count) weighs at most its parent (k-1)/2.
C1_HeapInvariant == lock = Free => HeapOK

C1_Witness ==
  /\ lock = Free
  /\ count = 2
  /\ Weight(tid[0]) > Weight(tid[1])
  /\ \E t \in Tasks : nret[t] = 1

\* C2: when no call is in progress, each task's completed inserts equal the
\* times it was returned plus its entries in the heap plus its entries in the
\* incoming buffer; so the totals agree and no reference is lost or duplicated.
C2_Conservation ==
  AllIdle =>
    /\ \A t \in Tasks : nins[t] = nret[t] + HeapOcc(t) + SlotOcc(t)
    /\ Sum(nins, Tasks) =
         Sum(nret, Tasks) + count
         + Cardinality({i \in 0..(queue_incoming_size - 1) :
                          tid_incoming[i] # Empty})

C2_Witness ==
  /\ AllIdle
  /\ Sum(nret, Tasks) = 1
  /\ count = 1
  /\ \E i \in 0..(queue_incoming_size - 1) : tid_incoming[i] # Empty

\* C3: with every task inserted at most once, no task is returned twice, the
\* task a worker was given is locked by that worker until it releases it, and
\* no two workers hold the same returned task.
C3_NoDoubleDispatch ==
  /\ \A t \in Tasks : nret[t] <= 1
  /\ \A th \in Procs : res[th] # NoTask => taskLock[res[th]] = th
  /\ \A a, b \in Procs : (a # b /\ res[a] # NoTask) => res[a] # res[b]

C3_Witness ==
  /\ res[1] # NoTask
  /\ res[2] # NoTask
  /\ count = 1

\* C6: a non-blocking queue_gettask whose trylock of the queue lock fails
\* returns NULL and changes no field of the queue and no task lock.
C6_FailedTryLockNoEffect ==
  [][\A th \in Procs :
       (/\ pc[th] = "gt_lock"
        /\ blocking[th] = 0
        /\ lock # Free
        /\ pc'[th] # "gt_lock")
       => /\ pc'[th] = "idle"
          /\ res'[th] = NoTask
          /\ UNCHANGED <<tid, count, size, lock, tid_incoming, first_incoming,
                         last_incoming, count_incoming, taskLock>>]_vars

C6_Witness ==
  \E th \in Threads :
    /\ ret[th] = "busy"
    /\ pc[th] = "idle"
    /\ lock # Free
    /\ count > 0

\* C7: with no previous task, a call whose first lock attempt succeeds (as it
\* does when every queued task is unlocked) claims the heap root, a task of
\* maximum weight among the heap entries after the drain.
C7_RootFirst ==
  \A th \in Procs :
    (pc[th] = "gt_remove" /\ prev[th] = NoTask /\ tried[th] = <<>>)
    => /\ sel[th].ind = 0
       /\ sel[th].tid = tid[0]
       /\ \A i \in 0..(count - 1) : Weight(sel[th].tid) >= Weight(tid[i])

C7_Witness ==
  \E th \in Threads :
    /\ pc[th] = "gt_remove"
    /\ prev[th] = NoTask
    /\ tried[th] = <<>>
    /\ count > queue_search_window
    /\ \E i \in 1..(count - 1) : Weight(tid[i]) < Weight(tid[0])

\* The state after N inserts, each drained, and no task taken out.
AllDrained ==
  /\ AllIdle
  /\ \A i \in 0..(queue_incoming_size - 1) : tid_incoming[i] = Empty
  /\ \A t \in Tasks : nret[t] = 0

\* C8: after N > queue_sizeinit inserts, each drained, size >= N, count = N,
\* the heap order holds and every inserted task is in the heap; a growth step
\* multiplies size by queue_sizegrow and keeps tid[0..count-1] and count.
C8_Growth ==
  /\ [](AllDrained /\ Sum(nins, Tasks) > queue_sizeinit
          => /\ count = Sum(nins, Tasks)
             /\ size >= count
             /\ HeapOK
             /\ \A t \in Tasks : HeapOcc(t) = nins[t])
  /\ [][\A th \in Procs :
          (pc[th] = "gi_grow" /\ pc'[th] # "gi_grow")
          => /\ size' = size * queue_sizegrow
             /\ size' > count
             /\ count' = count
             /\ \A i \in 0..(count - 1) : tid'[i] = tid[i]]_vars

C8_Witness ==
  /\ AllDrained
  /\ Sum(nins, Tasks) > queue_sizeinit
  /\ size > queue_sizeinit
  /\ count = NTasks

\* C9: a call that holds the queue lock returns NULL only from an empty heap
\* or after task_lock failed on every entry of the heap; each recorded
\* failure was on a task that was locked at that moment.
C9_NullOnlyIfAllLocked ==
  /\ [][\A th \in Procs :
          (pc[th] \in Selecting /\ pc'[th] = "idle" /\ res'[th] = NoTask)
          => \/ count = 0
             \/ \A i \in 0..(count - 1) : tid[i] \in Range(tried[th])]_vars
  /\ [][\A th \in Procs :
          (tried'[th] # tried[th] /\ tried'[th] # <<>>)
          => taskLock[tried'[th][Len(tried'[th])]] \notin {Free, th}]_vars

C9_Witness ==
  \E th \in Threads :
    /\ pc[th] = "gt_remove"
    /\ sel[th].ind < 0
    /\ count > queue_search_window
    /\ Len(tried[th]) = count

\* C10: a returned task was in the heap after the drain and was free when
\* this call locked it; the call removes exactly one occurrence of it (the
\* heap keeps every other entry, count drops by one) and the caller holds its
\* lock on return; a NULL return leaves the heap and count as they were
\* after the drain.
C10_ExactlyOneRemoved ==
  /\ [][\A th \in Procs :
          (pc[th] = "gt_remove" /\ pc'[th] = "idle") =>
            IF res'[th] # NoTask
              THEN /\ count > 0
                   /\ \E i \in 0..(count - 1) : tid[i] = res'[th]
                   /\ count' = count - 1
                   /\ \A t \in Tasks :
                        HeapOcc(t)' =
                          HeapOcc(t) - (IF t = res'[th] THEN 1 ELSE 0)
                   /\ taskLock'[res'[th]] = th
              ELSE UNCHANGED <<tid, count>>]_vars
  /\ [][(\E th \in Procs : pc[th] \in Selecting /\ pc'[th] \in Selecting)
          => UNCHANGED <<tid, count>>]_vars
  /\ [][\A th \in Procs, t \in Tasks :
          (taskLock'[t] = th /\ taskLock[t] # th) => taskLock[t] = Free]_vars

C10_Witness ==
  \E th \in Threads :
    /\ res[th] # NoTask
    /\ ret[th] = "task"
    /\ count = 2
    /\ HeapOcc(res[th]) = 0

\* C4: with more producers than incoming slots and no consumer, every
\* queue_insert call that has started returns, and while a call is in
\* progress some step can be taken.
C4_ProducerProgress ==
  /\ \A p \in Producers : (pc[p] # "idle") ~> (pc[p] = "idle")
  /\ [](~AllIdle => ENABLED NextInsert)

C4_Witness ==
  /\ Cardinality({p \in Producers : pc[p] # "idle"}) > queue_incoming_size
  /\ \E p \in Producers : pc[p] = "qi_unlock"
  /\ count > 0

\* C5: a queue_gettask call with blocking = 0 returns once its own steps are
\* scheduled, whatever the other threads do or fail to do.
C5_NonBlockingReturns ==
  (pc[1] = "gt_lock" /\ blocking[1] = 0) ~> (pc[1] = "idle")

C5_Witness ==
  /\ pc[1] = "gt_rest"
  /\ blocking[1] = 0
  /\ Len(tried[1]) = 1
  /\ pc[2] = "qi_cas"

\* C11: when the drain of a queue_gettask call that took the queue lock has
\* ended, every task whose queue_insert had returned before that call took
\* the lock, and that was not returned since, is in the heap.
C11_DrainSeesAll ==
  \A th \in Procs :
    pc[th] = "gt_empty" =>
      \A t \in seen[th] : nret[t] = 0 => HeapOcc(t) > 0

\* Positions of a queue_insert call after its atomic_inc.
Inserting == {"qi_cas", "qi_trylock", "qi_unlock", "qi_count"}

\* C12: every step of queue_insert outside the drain can be taken whoever
\* holds the queue lock; a queue_insert call takes the lock only at its
\* trylock, which it reaches only from a failed CAS; the steps of an insert
\* whose first CAS succeeds (atomic_inc, CAS, atomic_inc) change only
\* last_incoming, the one slot and count_incoming.
C12_InsertNeverBlocks ==
  /\ [](\A th \in Procs : pc[th] \in Inserting => ENABLED InsertStep(th))
  /\ [][\A th \in Procs :
          /\ (arg[th] # NoTask /\ lock' = th /\ lock # th)
               => pc[th] = "qi_trylock" /\ lock = Free
          /\ (pc'[th] = "qi_trylock" /\ pc[th] # "qi_trylock")
               => /\ pc[th] = "qi_cas"
                  /\ tid_incoming[slot[th]] # Empty
                  /\ tid_incoming' = tid_incoming
          /\ (pc[th] = "idle" /\ pc'[th] = "qi_cas")
               => /\ last_incoming' = last_incoming + 1
                  /\ UNCHANGED <<tid_incoming, count_incoming, lock, tid,
                                 count, size, first_incoming, taskLock>>
          /\ (pc[th] = "qi_cas" /\ pc'[th] = "qi_count")
               => /\ tid_incoming[slot[th]] = Empty
                  /\ tid_incoming' =
                       [tid_incoming EXCEPT ![slot[th]] = arg[th]]
                  /\ UNCHANGED <<last_incoming, count_incoming, lock, tid,
                                 count, size, first_incoming, taskLock>>
          /\ (pc[th] = "qi_count" /\ pc'[th] = "idle")
               => /\ count_incoming' = count_incoming + 1
                  /\ UNCHANGED <<last_incoming, tid_incoming, lock, tid,
                                 count, size, first_incoming, taskLock>>]_vars

C12_Witness ==
  \E th \in Threads :
    /\ pc[th] = "qi_trylock"
    /\ lock \notin {Free, th}
    /\ \E t \in Tasks : nins[t] = 1 /\ SlotOcc(t) = 1

\* Positions at which a thread is between taking and releasing the queue lock.
Critical ==
  {"gi_check", "gi_grow", "gi_put", "qi_unlock",
   "gt_empty", "gt_scan", "gt_rest", "gt_remove"}

\* C13: at most one thread is inside queue_get_incoming or the selection and
\* removal of queue_gettask, and it holds the queue lock; every step that
\* changes tid, count, size or first_incoming is a step of the lock holder.
C13_MutualExclusion ==
  /\ [](/\ \A th \in Procs : pc[th] \in Critical => lock = th
        /\ Cardinality({th \in Procs : pc[th] \in Critical}) <= 1)
  /\ [][(tid' # tid \/ count' # count \/ size' # size
           \/ first_incoming' # first_incoming)
         => \E th \in Procs :
              /\ lock = th
              /\ pc[th] \in Critical
              /\ pc'[th] # pc[th]
              /\ \A o \in Procs \ {th} : pc'[o] = pc[o]]_vars

C13_Witness ==
  \E a, b \in Threads :
    /\ a # b
    /\ pc[a] = "gi_put"
    /\ lock = a
    /\ pc[b] = "gt_lock"
    /\ blocking[b] = 1
    /\ count > 0

\* C14: an incoming slot changes only from empty to the task of a producer
\* whose CAS on that slot succeeds, or from a task to empty by the swap of
\* the lock holder in queue_get_incoming; never from one task to another.
C14_NoOverwrite ==
  [][\A i \in 0..(queue_incoming_size - 1) :
       tid_incoming'[i] # tid_incoming[i] =>
         \/ /\ tid_incoming[i] = Empty
            /\ \E th \in Procs :
                 /\ pc[th] = "qi_cas"
                 /\ pc'[th] = "qi_count"
                 /\ slot[th] = i
                 /\ tid_incoming'[i] = arg[th]
         \/ /\ tid_incoming[i] # Empty
            /\ tid_incoming'[i] = Empty
            /\ \E th \in Procs :
                 /\ lock = th
                 /\ pc[th] = "gi_check"
                 /\ offset'[th] = tid_incoming[i]]_vars

C14_Witness ==
  \E th \in Threads :
    /\ pc[th] = "qi_trylock"
    /\ last_incoming > queue_incoming_size
    /\ tid_incoming[slot[th]] \notin {Empty, arg[th]}

\* C20: 0 <= count <= size in every state; size never decreases and changes
\* only in the growth step of queue_get_incoming, at count = size, to size *
\* queue_sizegrow; count increases only in queue_get_incoming, by one, for
\* the entry just taken off the incoming buffer.
C20_CountSize ==
  /\ [](0 <= count /\ count <= size)
  /\ [][/\ size' >= size
         /\ (size' # size =>
              \E th \in Procs :
                /\ pc[th] = "gi_grow"
                /\ lock = th
                /\ count = size
                /\ size' = size * queue_sizegrow)
         /\ (count' > count =>
              \E th \in Procs :
                /\ pc[th] = "gi_put"
                /\ lock = th
                /\ count' = count + 1
                /\ \E t \in Tasks :
                     t = offset[th] /\ HeapOcc(t)' = HeapOcc(t) + 1)]_vars

C20_Witness ==
  /\ size = queue_sizeinit * queue_sizegrow * queue_sizegrow
  /\ count = 1
  /\ \E t \in Tasks : nret[t] > 0

\* Member i of the window of th has the maximal overlap with prev among the
\* window members and is the first such member.
FirstBest(th, i) ==
  /\ i \in 1..Len(window[th])
  /\ \A j \in 1..Len(window[th]) :
       task_overlap(prev[th], window[th][j].tid)
         <= task_overlap(prev[th], window[th][i].tid)
  /\ \A j \in 1..(i - 1) :
       task_overlap(prev[th], window[th][j].tid)
         < task_overlap(prev[th], window[th][i].tid)

\* C15: every lock attempt of queue_gettask, failed or successful, is on the
\* first window member of maximal overlap with prev; the window members are
\* heap entries, and the overlap of the task that gets locked is >= that of
\* every member of the window at that moment.
C15_BestOfWindow ==
  [][\A th \in Procs :
       (/\ pc[th] \in {"gt_scan", "gt_rest"}
        /\ (pc'[th] # pc[th] \/ tried'[th] # tried[th])) =>
         /\ \A j \in 1..Len(window[th]) :
              /\ window[th][j].ind \in 0..(count - 1)
              /\ tid[window[th][j].ind] = window[th][j].tid
         /\ IF sel'[th].ind >= 0
              THEN /\ \E i \in 1..Len(window[th]) :
                        /\ FirstBest(th, i)
                        /\ sel'[th].tid = window[th][i].tid
                        /\ sel'[th].ind = window[th][i].ind
                   /\ \A j \in 1..Len(window[th]) :
                        task_overlap(prev[th], sel'[th].tid)
                          >= task_overlap(prev[th], window[th][j].tid)
                   /\ tried'[th] = tried[th]
              ELSE \E i \in 1..Len(window[th]) :
                     /\ FirstBest(th, i)
                     /\ tried'[th] = Append(tried[th], window[th][i].tid)]_vars

C15_Witness ==
  \E th \in Threads :
    /\ pc[th] = "gt_remove"
    /\ prev[th] # NoTask
    /\ sel[th].ind = 1
    /\ Len(tried[th]) = 1
    /\ count = 2

\* Lock attempts made so far by the queue_gettask call of th.
Attempts(th) == Len(tried[th]) + (IF sel[th].ind >= 0 THEN 1 ELSE 0)

\* C16 as stated: the heap entries a queue_gettask call scores (k of them)
\* and the lock attempts it makes number at most queue_search_window each.
C16_BoundedByWindow ==
  \A th \in Procs :
    pc[th] \in Selecting =>
      /\ k[th] <= queue_search_window
      /\ Attempts(th) <= queue_search_window

\* C16 amended: a call holds at most queue_search_window candidates at a
\* time, scores at most count heap entries, goes past the first
\* queue_search_window entries by one entry per failed lock attempt of the
\* scan, and tries each heap entry at most once.
C16_BoundedByCount ==
  \A th \in Procs :
    pc[th] \in Selecting =>
      /\ Len(window[th]) <= queue_search_window
      /\ k[th] <= count
      /\ k[th] <= queue_search_window + Len(tried[th])
      /\ Attempts(th) <= k[th] \/ pc[th] = "gt_empty"
      /\ \A i, j \in 1..Len(tried[th]) :
           i # j => tried[th][i] # tried[th][j]
      /\ sel[th].ind >= 0 => sel[th].tid \notin Range(tried[th])

C16_Witness ==
  \E th \in Threads :
    /\ pc[th] = "gt_remove"
    /\ sel[th].ind >= 0
    /\ k[th] > queue_search_window
    /\ Attempts(th) > queue_search_window

\* C17 as stated: the entries are appended to the heap in the order in which
\* the CASes that stored them succeeded: each appended task is the one whose
\* CAS succeeded first among those not yet appended.
C17_CasOrder ==
  [][\A th \in Procs :
       (pc[th] = "gi_put" /\ pc'[th] = "gi_check")
       => offset[th] = Head(casSeq)]_vars

\* C17 amended: the entries are appended in the order of the slots along the
\* ring from first_incoming, whatever the order of the CASes: each entry
\* taken is the one in slot first_incoming % queue_incoming_size,
\* first_incoming advances by one, and that entry is the next one appended.
C17_RingOrder ==
  [][\A th \in Procs :
       /\ (pc[th] = "gi_check" /\ pc'[th] \in {"gi_grow", "gi_put"})
            => /\ tid_incoming[first_incoming % queue_incoming_size] \in Tasks
               /\ offset'[th] =
                    tid_incoming[first_incoming % queue_incoming_size]
               /\ tid_incoming' =
                    [tid_incoming EXCEPT
                       ![first_incoming % queue_incoming_size] = Empty]
               /\ first_incoming' = first_incoming + 1
       /\ (pc[th] = "gi_put" /\ pc'[th] = "gi_check")
            => \E t \in Range(casSeq) :
                 /\ t = offset[th]
                 /\ HeapOcc(t)' = HeapOcc(t) + 1
                 /\ count' = count + 1
                 /\ \A u \in Tasks \ {t} : HeapOcc(u)' = HeapOcc(u)]_vars

C17_Witness ==
  \E th \in Threads :
    /\ pc[th] = "gi_put"
    /\ Len(casSeq) = 2
    /\ offset[th] = casSeq[2]
    /\ count = 1

\* The heap indices on the way from ind up to the root, ind included.
RECURSIVE Ancestors(_)
Ancestors(ind) ==
  IF ind <= 0 THEN {0} ELSE {ind} \cup Ancestors((ind - 1) \div 2)

\* C18 as stated: when the entry handed to queue_sift_down has two children
\* of equal weight, the right child is the one compared with the entry: it
\* moves up into the entry's place if it is strictly heavier than the entry
\* (the left child stays), and otherwise nothing moves.
C18_RightWinsTie ==
  [][(pc[1] = "hp_down" /\ pc'[1] = "idle") =>
       LET i == sel[1].ind
           l == 2 * i + 1
           r == 2 * i + 2
       IN (r < count /\ Weight(tid[l]) = Weight(tid[r])) =>
            IF Weight(tid[r]) > Weight(tid[i])
              THEN tid'[i] = tid[r] /\ tid'[l] = tid[l]
              ELSE tid' = tid /\ sel'[1].ind = i]_vars

\* C18 amended: with two children of equal weight the left child is the one
\* compared with the entry: it moves up into the entry's place if it is
\* strictly heavier than the entry (the right child stays), and otherwise
\* nothing moves and queue_sift_down returns the index it was given.
C18_LeftWinsTie ==
  [][(pc[1] = "hp_down" /\ pc'[1] = "idle") =>
       LET i == sel[1].ind
           l == 2 * i + 1
           r == 2 * i + 2
       IN (r < count /\ Weight(tid[l]) = Weight(tid[r])) =>
            IF Weight(tid[l]) > Weight(tid[i])
              THEN /\ tid'[i] = tid[l]
                   /\ tid'[r] = tid[r]
                   /\ sel'[1].ind >= l
                   /\ tid'[sel'[1].ind] = tid[i]
              ELSE tid' = tid /\ sel'[1].ind = i]_vars

C18_Witness ==
  /\ pc[1] = "idle"
  /\ ret[1] = "sift"
  /\ k[1] = 0
  /\ sel[1].ind = 1
  /\ count >= 3
  /\ Weight(tid[0]) = Weight(tid[2])
  /\ Weight(tid[1]) < Weight(tid[0])

\* C19: queue_bubble_up(ind) returns an index j on the way from ind to the
\* root at which the entry that was at ind now rests; the entry went past
\* every parent of weight <= its own (equal weights included) and stopped
\* at the root or under a strictly heavier parent; each parent it passed
\* moved one level down, every other cell is unchanged, and so is the
\* multiset of heap entries.
C19_BubbleUp ==
  [][(pc[1] \in {"hp_up_put", "hp_up_take"} /\ pc'[1] # pc[1]) =>
       \E j \in Ancestors(k[1]) :
         /\ sel'[1].ind = j
         /\ tid'[j] = tid[k[1]]
         /\ j = 0 \/ Weight(tid[k[1]]) < Weight(tid[(j - 1) \div 2])
         /\ \A c \in Ancestors(k[1]) :
              c > j => /\ Weight(tid[k[1]]) >= Weight(tid[(c - 1) \div 2])
                       /\ tid'[c] = tid[(c - 1) \div 2]
         /\ \A c \in 0..(size - 1) :
              (c \notin Ancestors(k[1]) \/ c < j) => tid'[c] = tid[c]
         /\ \A t \in HeapTasks : HeapOcc(t)' = HeapOcc(t)]_vars

C19_Witness ==
  /\ pc[1] = "idle"
  /\ ret[1] = "bubble"
  /\ k[1] = 3
  /\ sel[1].ind = 0
  /\ count = 4
  /\ Weight(tid[0]) = Weight(tid[1])
  /\ Weight(tid[1]) = Weight(tid[3])

----------------------------------------------------------------------------
(* The counters of the incoming ring. *)

\* The slots of the ring that hold a task index.
FullSlots == {i \in 0..(queue_incoming_size - 1) : tid_incoming[i] # Empty}

\* A queue_insert between its successful CAS and its atomic_inc of
\* count_incoming, or a queue_get_incoming between its atomic_swap and its
\* atomic_dec of count_incoming.
MidCount(th) == pc[th] \in {"qi_count", "gi_grow", "gi_put"}

\* C21: in every state where no queue_insert stands between its successful
\* CAS and its increment and no queue_get_incoming stands between its swap
\* and its decrement, count_incoming is the number of non-empty slots.
C21_CountIsSlots ==
  (\A th \in Procs : ~MidCount(th)) =>
    count_incoming = Cardinality(FullSlots)

\* A drain has taken one task out of the ring, one task is staged and a
\* further queue_insert is still at its CAS.
C21_Witness ==
  /\ \A th \in Procs : ~MidCount(th)
  /\ first_incoming = 1
  /\ count_incoming = 1
  /\ \E th \in Procs : pc[th] = "qi_cas"

----------------------------------------------------------------------------
(* The task locks taken by queue_gettask. *)

\* The tasks whose lock is held by th.
LockedBy(th) == {t \in Tasks : taskLock[t] = th}

\* C23: within one queue_gettask call each heap entry is try-locked at most
\* once (the failed candidates are pairwise distinct and the locked one is
\* not among them, so at most count attempts are made), at most one
\* task_lock succeeds, and the only task lock the call holds is that of the
\* task it is about to return; after a NULL return the caller holds no task
\* lock, after a task is returned it holds the lock of that task alone.
C23_LockOnce ==
  \A th \in Procs :
    /\ pc[th] \in Selecting =>
         /\ Attempts(th) <= count
         /\ \A i, j \in 1..Len(tried[th]) :
              i # j => tried[th][i] # tried[th][j]
         /\ \A i \in 1..Len(tried[th]) :
              /\ HeapOcc(tried[th][i]) = 1
              /\ tried[th][i] # sel[th].tid
              /\ taskLock[tried[th][i]] # th
         /\ LockedBy(th) = IF sel[th].ind >= 0 THEN {sel[th].tid} ELSE {}
    /\ (pc[th] \in {"gt_lock", "gi_check", "gi_grow", "gi_put"}
          /\ ret[th] = "none") => LockedBy(th) = {}
    /\ pc[th] = "idle" =>
         /\ LockedBy(th) = {res[th]} \ {NoTask}
         /\ ret[th] \in {"busy", "empty", "locked"} => res[th] = NoTask
         /\ ret[th] = "task" => res[th] # NoTask

\* A call whose first two candidates were locked by other workers has
\* locked the third one.
C23_Witness ==
  \E th \in Threads :
    /\ pc[th] = "gt_remove"
    /\ Len(tried[th]) = 2
    /\ sel[th].ind >= 0
    /\ LockedBy(th) = {sel[th].tid}

\* C24: count_incoming is never negative, under any interleaving of
\* queue_insert and queue_get_incoming.
C24_NonNegative == count_incoming >= 0

\* The slot the drain looks at next.
ReadSlot == first_incoming % queue_incoming_size

\* th is inside queue_insert, has claimed slot s and has not yet stored its
\* task with a successful CAS.
ClaimedNotStored(th, s) ==
  /\ arg[th] # NoTask
  /\ pc[th] # "qi_count"
  /\ slot[th] = s

----------------------------------------------------------------------------
(* The drain of a quiescent incoming buffer. *)

\* No queue_insert call is in progress.
NoInsert == \A th \in Procs : arg[th] = NoTask

\* C26: when the queue_get_incoming run of a queue_gettask call ends (it
\* finds the slot at first_incoming empty) while no queue_insert call is in
\* progress, every slot of the incoming buffer is empty, count_incoming is
\* 0, first_incoming equals last_incoming, and every task that was inserted
\* and not yet returned is in the heap, once.
C26_QuiescentDrain ==
  [][\A th \in Procs :
       (pc[th] = "gi_check" /\ pc'[th] = "gt_empty" /\ NoInsert) =>
         /\ \A i \in 0..(queue_incoming_size - 1) : tid_incoming'[i] = Empty
         /\ count_incoming' = 0
         /\ first_incoming' = last_incoming'
         /\ \A t \in Tasks :
              (nins[t] > 0 /\ nret[t] = 0) => HeapOcc(t)' = 1]_vars

\* A drain has ended with all three tasks in the heap and no insert in
\* progress.
C26_Witness ==
  \E th \in Threads :
    /\ pc[th] = "gt_empty"
    /\ NoInsert
    /\ first_incoming = NTasks
    /\ count = NTasks

----------------------------------------------------------------------------
(* The queue lock is released on every path. *)

\* Positions of a thread outside every call, at the entry of queue_gettask
\* or in queue_insert outside its drain-assist.
Outside == {"idle", "gt_lock", "qi_cas", "qi_trylock", "qi_count"}

\* The caller holds the queue lock only between taking and releasing it:
\* not after any return of queue_gettask or queue_insert, and not when a
\* drain-assist iteration of queue_insert is over.
NotLeaked ==
  \A th \in Procs :
    /\ pc[th] \in Outside => lock # th
    /\ lock = th => pc[th] \in Critical
    /\ lock \in {Free} \cup Threads

\* th is waiting in the lock_lock of a blocking queue_gettask call.
Waiting(th) == pc[th] = "gt_lock" /\ blocking[th] = 1

\* C22 as stated: the queue lock is not held by the caller after any return
\* of queue_gettask or queue_insert, nor between the drain-assist
\* iterations of queue_insert, and a blocking queue_gettask call acquires
\* the lock under fair scheduling of the threads.
C22_BlockingAcquires ==
  /\ []NotLeaked
  /\ \A th \in Threads : Waiting(th) ~> (lock = th)

\* C22 amended: the lock is not held after any return, every holder
\* releases it, so a waiting blocking call finds the lock free again and
\* again; it acquires the lock if the lock does not pass over a waiter for
\* ever (strong fairness of the acquisition).
C22_LockReleased ==
  /\ []NotLeaked
  /\ \A th \in Threads : (lock = th) ~> (lock = Free)
  /\ \A th \in Threads : Waiting(th) ~> (lock = Free)
  /\ \A th \in Threads :
       SF_vars(GetTaskLock(th)) => (Waiting(th) ~> (lock = th))

\* A blocking queue_gettask call waits while the other thread is about to
\* release the lock after a drain-assist that emptied the incoming buffer.
C22_Witness ==
  \E a, b \in Threads :
    /\ Waiting(a)
    /\ lock = b
    /\ pc[b] = "qi_unlock"
    /\ count = queue_incoming_size

====
